---- MODULE Spec2Model ----
(***************************************************************************)
(* State-machine model of src/app.py: the Flask question-paper             *)
(* application (hardcoded admin + public listing) over the SQLite tables   *)
(* question_papers_1 and visitor_stats.                                    *)
(*                                                                         *)
(* Text values are sequences of one-character strings, so that len(),      *)
(* int(), LIKE, lower() and the BINARY collation are computed and not      *)
(* assumed.  BLOB payloads are sequences of byte values.                   *)
(***************************************************************************)
EXTENDS Integers, Sequences, FiniteSets, TLC

(* ---------------------------- bounds ---------------------------------- *)
\* largest AUTOINCREMENT id handed out in the CRUD specification
MaxId == 2
\* largest AUTOINCREMENT id handed out in the validation specification
MaxValId == 1
\* largest AUTOINCREMENT id handed out in the listing specification
MaxListId == 11
\* largest number of visitor_stats rows
MaxVisits == 2
\* largest number of visitor_stats rows, and of minted identifiers, in the
\* visitor specification
MaxViews == 3

(* ------------------------ program constants --------------------------- *)
per_page == 10
MaxYearNameLen == 20
MaxSubjectNameLen == 100
MaxSubjectCodeLen == 20
MinSemester == 1
MaxSemester == 12
\* max_age of the visitor_id cookie, in seconds: 30*24*60*60
VISITOR_COOKIE_MAX_AGE == 2592000

(* --------------------------- characters ------------------------------- *)
UpperChars == <<"A","B","C","D","E","F","G","H","I","J","K","L","M",
                "N","O","P","Q","R","S","T","U","V","W","X","Y","Z">>
LowerChars == <<"a","b","c","d","e","f","g","h","i","j","k","l","m",
                "n","o","p","q","r","s","t","u","v","w","x","y","z">>
DigitChars == <<"0","1","2","3","4","5","6","7","8","9">>

\* printable ASCII in code order, by segment (the double quote, 34, the
\* backslash, 92, and the grave accent, 96, are left out of the alphabet)
Seg32 == <<" ","!">>
Seg35 == <<"#","$","%","&","'","(",")","*","+",",","-",".","/">>
         \o DigitChars \o <<":",";","<","=",">","?","@">> \o UpperChars \o <<"[">>
Seg93 == <<"]","^","_">>
Seg97 == LowerChars \o <<"{","|","}","~">>

IndexIn(seq, c) == CHOOSE i \in 1..Len(seq) : seq[i] = c
InSeg(seq, c) == \E i \in 1..Len(seq) : seq[i] = c
Range(seq) == {seq[i] : i \in 1..Len(seq)}
Alphabet == Range(Seg32) \cup Range(Seg35) \cup Range(Seg93) \cup Range(Seg97)

\* the byte value of each character
CodeOf == [c \in Alphabet |->
             IF InSeg(Seg32, c) THEN 31 + IndexIn(Seg32, c)
             ELSE IF InSeg(Seg35, c) THEN 34 + IndexIn(Seg35, c)
             ELSE IF InSeg(Seg93, c) THEN 92 + IndexIn(Seg93, c)
             ELSE 96 + IndexIn(Seg97, c)]
Code(c) == CodeOf[c]

Digits == Range(DigitChars)
IsDigit(c) == c \in Digits
DigitVal(c) == CodeOf[c] - 48

\* str.lower() and the ASCII-only case folding of LIKE, on one character
LowerOf == [c \in Alphabet |->
              IF InSeg(UpperChars, c) THEN LowerChars[IndexIn(UpperChars, c)] ELSE c]
Lower(c) == LowerOf[c]
LowerStr(s) == [i \in 1..Len(s) |-> Lower(s[i])]

Repeat(c, n) == [i \in 1..n |-> c]

Min(a, b) == IF a < b THEN a ELSE b

(* ------------------- Python int() on a form string -------------------- *)
RECURSIVE StripLeft(_)
StripLeft(s) == IF s # <<>> /\ s[1] = " " THEN StripLeft(Tail(s)) ELSE s
RECURSIVE StripRight(_)
StripRight(s) == IF s # <<>> /\ s[Len(s)] = " "
                 THEN StripRight(SubSeq(s, 1, Len(s) - 1)) ELSE s
Strip(s) == StripRight(StripLeft(s))

HasSign(s) == s # <<>> /\ s[1] \in {"+", "-"}
Unsigned(s) == IF HasSign(s) THEN Tail(s) ELSE s
Signed(s, n) == IF HasSign(s) /\ s[1] = "-" THEN 0 - n ELSE n

RECURSIVE DigitsValue(_, _)
DigitsValue(s, acc) ==
    IF s = <<>> THEN acc
    ELSE IF s[1] = "_" THEN DigitsValue(Tail(s), acc)
    ELSE DigitsValue(Tail(s), 10 * acc + DigitVal(s[1]))

\* int() accepts digits with single underscores between them (PEP 515)
PyIntBodyOk(b) ==
    /\ b # <<>>
    /\ IsDigit(b[1]) /\ IsDigit(b[Len(b)])
    /\ \A i \in 1..Len(b) : IsDigit(b[i]) \/ b[i] = "_"
    /\ \A i \in 1..(Len(b) - 1) : ~(b[i] = "_" /\ b[i + 1] = "_")

PyIntOk(s) == PyIntBodyOk(Unsigned(Strip(s)))
PyInt(s) == Signed(Strip(s), DigitsValue(Unsigned(Strip(s)), 0))

(* --------------- SQLite column values and INTEGER affinity ------------ *)
Null == [t |-> "null", i |-> 0, s |-> <<>>]
IntVal(n) == [t |-> "integer", i |-> n, s |-> <<>>]
TextVal(x) == [t |-> "text", i |-> 0, s |-> x]

\* a well-formed integer literal for SQLite: optional sign, digits only
SqlIntLiteral(s) ==
    LET b == Unsigned(Strip(s))
    IN  b # <<>> /\ \A i \in 1..Len(b) : IsDigit(b[i])

\* what an INTEGER column stores for a bound Python value (None or str)
IntegerAffinityStr(s) ==
    IF SqlIntLiteral(s) THEN IntVal(Signed(Strip(s), DigitsValue(Unsigned(Strip(s)), 0)))
    ELSE TextVal(s)
IntegerAffinity(v) == IF v = Null THEN Null ELSE IntegerAffinityStr(v.s)

\* request.form['paper_year'] or None
OrNone(s) == IF s = <<>> THEN Null ELSE TextVal(s)

(* ----------------------- SQLite ordering ------------------------------ *)
TypeRank(v) == CASE v.t = "null" -> 0 [] v.t = "integer" -> 1 [] OTHER -> 2

\* BINARY collation: bytewise, a proper prefix sorts first
RECURSIVE TextLess(_, _)
TextLess(a, b) ==
    IF b = <<>> THEN FALSE
    ELSE IF a = <<>> THEN TRUE
    ELSE IF a[1] = b[1] THEN TextLess(Tail(a), Tail(b))
    ELSE Code(a[1]) < Code(b[1])

SqlLess(a, b) ==
    IF TypeRank(a) # TypeRank(b) THEN TypeRank(a) < TypeRank(b)
    ELSE CASE a.t = "integer" -> a.i < b.i
           [] a.t = "text" -> TextLess(a.s, b.s)
           [] OTHER -> FALSE

(* ----------------------------- LIKE ----------------------------------- *)
\* SQLite LIKE: % any run, _ any one character, ASCII case-insensitive
RECURSIVE LikeMatch(_, _)
LikeMatch(p, s) ==
    IF p = <<>> THEN s = <<>>
    ELSE IF p[1] = "%"
         THEN LikeMatch(Tail(p), s) \/ (s # <<>> /\ LikeMatch(p, Tail(s)))
    ELSE IF p[1] = "_"
         THEN s # <<>> /\ LikeMatch(Tail(p), Tail(s))
    ELSE s # <<>> /\ Lower(p[1]) = Lower(s[1]) /\ LikeMatch(Tail(p), Tail(s))

(* -------------------------- uploaded files ---------------------------- *)
\* werkzeug FileStorage: a file part with an empty filename is falsy
FileTruthy(file) == file.filename # <<>>

ALLOWED_EXTENSIONS == { <<"p","d","f">> }

HasDot(f) == \E i \in 1..Len(f) : f[i] = "."
LastDot(f) == CHOOSE i \in 1..Len(f) : f[i] = "." /\ \A j \in (i + 1)..Len(f) : f[j] # "."
\* filename.rsplit('.', 1)[1]
RSplitExt(f) == SubSeq(f, LastDot(f) + 1, Len(f))

allowed_file(filename) ==
    HasDot(filename) /\ LowerStr(RSplitExt(filename)) \in ALLOWED_EXTENSIONS

(* ------------------------- secure_filename ---------------------------- *)
FilenameChars == Digits \cup Range(UpperChars) \cup Range(LowerChars) \cup {"_", ".", "-"}
IsFilenameChar(c) == c \in FilenameChars

\* filename.replace(os.sep, " ")
SepToSpace(s) == [i \in 1..Len(s) |-> IF s[i] = "/" THEN " " ELSE s[i]]

\* "_".join(s.split()) on a string without leading or trailing spaces
RECURSIVE JoinWords(_)
JoinWords(s) ==
    IF s = <<>> THEN <<>>
    ELSE IF s[1] = " "
         THEN IF Len(s) >= 2 /\ s[2] = " " THEN JoinWords(Tail(s))
              ELSE <<"_">> \o JoinWords(Tail(s))
    ELSE <<s[1]>> \o JoinWords(Tail(s))

\* _filename_ascii_strip_re.sub("", s)
RECURSIVE KeepFilenameChars(_)
KeepFilenameChars(s) ==
    IF s = <<>> THEN <<>>
    ELSE IF IsFilenameChar(s[1]) THEN <<s[1]>> \o KeepFilenameChars(Tail(s))
    ELSE KeepFilenameChars(Tail(s))

\* s.strip("._")
RECURSIVE StripDotUnderscore(_)
StripDotUnderscore(s) ==
    IF s # <<>> /\ s[1] \in {".", "_"} THEN StripDotUnderscore(Tail(s))
    ELSE IF s # <<>> /\ s[Len(s)] \in {".", "_"}
         THEN StripDotUnderscore(SubSeq(s, 1, Len(s) - 1))
    ELSE s

secure_filename(s) ==
    StripDotUnderscore(KeepFilenameChars(JoinWords(Strip(SepToSpace(s)))))

\* the name as formatted, without secure_filename
DownloadName_Raw(subject_name, year_name) ==
    subject_name \o <<"_">> \o year_name \o <<".","p","d","f">>

\* secure_filename(f"{subject_name}_{year_name}.pdf")
DownloadName(subject_name, year_name) ==
    secure_filename(subject_name \o <<"_">> \o year_name \o <<".","p","d","f">>)

(* --------------------------- validation -------------------------------- *)
PaperTypes == {"Regular", "Arrear"}

\* not (year_name and semester_no and subject_name and paper_type and file)
RequiredFilledAdd(f) ==
    /\ f.year_name # <<>> /\ f.semester_no # <<>> /\ f.subject_name # <<>>
    /\ f.paper_type # "" /\ FileTruthy(f.file)

RequiredFilledUpdate(f) ==
    /\ f.year_name # <<>> /\ f.semester_no # <<>> /\ f.subject_name # <<>>
    /\ f.paper_type # ""

LengthOk(f) ==
    ~ (\/ Len(f.year_name) > MaxYearNameLen
       \/ Len(f.subject_name) > MaxSubjectNameLen
       \/ (f.subject_code # <<>> /\ Len(f.subject_code) > MaxSubjectCodeLen))

\* an exclusive upper limit
SemesterInRange_Exclusive(n) == MinSemester <= n /\ n < MaxSemester

SemesterInRange(n) == MinSemester <= n /\ n <= MaxSemester

PaperTypeOk(f) == f.paper_type \in PaperTypes

FileOkAdd(f) == allowed_file(f.file.filename)
\* no extension test on update
FileOkUpdate_AnyFile(f) == TRUE

\* if file and not allowed_file(file.filename): rejected
FileOkUpdate(f) == ~ (FileTruthy(f.file) /\ ~ allowed_file(f.file.filename))

\* the checks of add in source order; the first that fails decides
AddVerdict(f) ==
    IF ~ RequiredFilledAdd(f) THEN "required"
    ELSE IF ~ LengthOk(f) THEN "length"
    ELSE IF ~ PyIntOk(f.semester_no) THEN "ValueError"
    ELSE IF ~ SemesterInRange(PyInt(f.semester_no)) THEN "semester"
    ELSE IF ~ PaperTypeOk(f) THEN "paper_type"
    ELSE IF ~ FileOkAdd(f) THEN "file"
    ELSE "ok"

UpdateVerdict(f) ==
    IF ~ RequiredFilledUpdate(f) THEN "required"
    ELSE IF ~ LengthOk(f) THEN "length"
    ELSE IF ~ PyIntOk(f.semester_no) THEN "ValueError"
    ELSE IF ~ SemesterInRange(PyInt(f.semester_no)) THEN "semester"
    ELSE IF ~ PaperTypeOk(f) THEN "paper_type"
    ELSE IF ~ FileOkUpdate(f) THEN "file"
    ELSE "ok"

VerdictMessage(v) ==
    CASE v = "required" -> "All required fields must be filled."
      [] v = "length" -> "Input exceeds maximum length."
      [] v = "semester" -> "Semester No must be between 1 and 12."
      [] v = "paper_type" -> "Invalid paper type."
      [] OTHER -> "Only PDF files are allowed."

(* ------------------------ rows of question_papers_1 ------------------- *)
\* the metadata columns as bound by the INSERT and UPDATE statements
MetaOf(f) ==
    [year_name |-> f.year_name,
     semester_no |-> IntegerAffinityStr(f.semester_no),
     subject_name |-> f.subject_name,
     subject_code |-> f.subject_code,
     paper_type |-> f.paper_type,
     paper_year |-> IntegerAffinity(OrNone(f.paper_year))]

\* the upload stream was already consumed: file.read() yields b''
RowOf_EmptyRead(meta, data) ==
    [year_name |-> meta.year_name, semester_no |-> meta.semester_no,
     subject_name |-> meta.subject_name, subject_code |-> meta.subject_code,
     paper_type |-> meta.paper_type, paper_year |-> meta.paper_year,
     file_data |-> <<>>]

RowOf(meta, data) ==
    [year_name |-> meta.year_name, semester_no |-> meta.semester_no,
     subject_name |-> meta.subject_name, subject_code |-> meta.subject_code,
     paper_type |-> meta.paper_type, paper_year |-> meta.paper_year,
     file_data |-> data]

\* CHECK(paper_type IN ('Regular', 'Arrear')) of the table definition
TableCheck(row) == row.paper_type \in PaperTypes

(* ------------------------------ listing -------------------------------- *)
SortColumns == {"year_name", "semester_no", "paper_year"}

\* WHERE year_name LIKE ? OR subject_name LIKE ? OR subject_code LIKE ?
\* with each parameter '%' + search + '%'; no WHERE clause when search is empty
Matches(row, search) ==
    \/ search = <<>>
    \/ LET pat == <<"%">> \o search \o <<"%">>
       IN  \/ LikeMatch(pat, row.year_name)
           \/ LikeMatch(pat, row.subject_name)
           \/ LikeMatch(pat, row.subject_code)

MatchingIds(tbl, search) == {id \in DOMAIN tbl : Matches(tbl[id], search)}

\* ORDER BY {sort} whatever the value: 'id DESC' reverses the id order
SortKey_Interpolated(tbl, id, sort) ==
    CASE sort = "year_name" -> TextVal(tbl[id].year_name)
      [] sort = "semester_no" -> tbl[id].semester_no
      [] sort = "paper_year" -> tbl[id].paper_year
      [] sort = "id DESC" -> IntVal(0 - id)
      [] OTHER -> IntVal(id)

\* the ORDER BY term: an allow-listed column, otherwise id
SortKey(tbl, id, sort) ==
    IF sort \in SortColumns
    THEN CASE sort = "year_name" -> TextVal(tbl[id].year_name)
           [] sort = "semester_no" -> tbl[id].semester_no
           [] OTHER -> tbl[id].paper_year
    ELSE IntVal(id)

\* rows with equal keys come out in rowid order (the table scan feeds the
\* ORDER BY ... LIMIT index in rowid order, tagged with a sequence number)
Precedes(tbl, a, b, sort) ==
    \/ SqlLess(SortKey(tbl, a, sort), SortKey(tbl, b, sort))
    \/ (~ SqlLess(SortKey(tbl, b, sort), SortKey(tbl, a, sort)) /\ a < b)

\* ORDER BY: the matching ids, each put after the ids that precede it
RECURSIVE SortIds(_, _, _)
SortIds(tbl, ids, sort) ==
    IF ids = {} THEN <<>>
    ELSE LET a == CHOOSE x \in ids : TRUE
             rest == SortIds(tbl, ids \ {a}, sort)
             pos == Cardinality({i \in 1..Len(rest) : Precedes(tbl, rest[i], a, sort)})
         IN  SubSeq(rest, 1, pos) \o <<a>> \o SubSeq(rest, pos + 1, Len(rest))

Ordered(tbl, search, sort) == SortIds(tbl, MatchingIds(tbl, search), sort)

\* total_records // per_page
CeilDiv_Floor(n, d) == n \div d

\* math.ceil(total_records / per_page)
CeilDiv(n, d) == IF n % d = 0 THEN n \div d ELSE (n \div d) + 1
TotalPages(tbl, search) == CeilDiv(Cardinality(MatchingIds(tbl, search)), per_page)

\* OFFSET page * per_page
PageOffset_OnePageOn(page) == page * per_page

PageOffset(page) == (page - 1) * per_page

\* a page number past the last page is served as the last page
PageIds_Clamped(tbl, page, search, sort) ==
    LET all == Ordered(tbl, search, sort)
        last_page == TotalPages(tbl, search)
        p == IF last_page = 0 THEN 1 ELSE Min(page, last_page)
    IN  SubSeq(all, PageOffset(p) + 1, Min(Len(all), PageOffset(p) + per_page))

\* LIMIT per_page OFFSET (page - 1) * per_page
PageIds(tbl, page, search, sort) ==
    LET all == Ordered(tbl, search, sort)
    IN  SubSeq(all, PageOffset(page) + 1, Min(Len(all), PageOffset(page) + per_page))

\* the columns selected for the listing (file_data is not among them)
ListedRow(tbl, id) ==
    [id |-> id, year_name |-> tbl[id].year_name, semester_no |-> tbl[id].semester_no,
     subject_name |-> tbl[id].subject_name, subject_code |-> tbl[id].subject_code,
     paper_type |-> tbl[id].paper_type, paper_year |-> tbl[id].paper_year]

PageRecords(tbl, page, search, sort) ==
    LET ids == PageIds(tbl, page, search, sort)
    IN  [k \in 1..Len(ids) |-> ListedRow(tbl, ids[k])]

(* ------------------------------- state --------------------------------- *)
VARIABLES
    question_papers_1,  \* the table: id -> row (metadata columns and file_data)
    sqlite_sequence,    \* largest id AUTOINCREMENT has handed out for the table
    visitor_stats,      \* the table, in insertion order: sequence of visitor ids
    uuid_count,         \* number of identifiers uuid.uuid4() has minted
    session,            \* the Flask session of the browser: key -> value
    last,               \* the request just handled and its response
    uploaded,           \* history: id -> payload sent with the add that created
                        \* it, kept until the row is deleted or gets a new file
    open_handles,       \* number of sqlite3 connections opened and not closed
    in_flight           \* a dashboard request between its count query and its
                        \* page query: its arguments, the count it read and
                        \* (history) the table that count was read from

vars == <<question_papers_1, sqlite_sequence, visitor_stats, uuid_count,
          session, last, uploaded, open_handles, in_flight>>

(* ------------------------ requests and responses ----------------------- *)
NoFile == [filename |-> <<>>, data |-> <<>>]
NoForm == [year_name |-> <<>>, semester_no |-> <<>>, subject_name |-> <<>>,
           subject_code |-> <<>>, paper_type |-> "", paper_year |-> <<>>,
           file |-> NoFile, missing |-> {}]
NoCookie == [src |-> "none", n |-> 0]
Uuid(k) == [src |-> "uuid4", n |-> k]

Req(op) == [op |-> op, id |-> 0, form |-> NoForm, page |-> 0, search |-> <<>>,
            sort |-> "", cookie |-> NoCookie, db |-> "ok",
            email |-> "", password |-> ""]

NoFlash == [category |-> "", message |-> "", detail |-> ""]
Flash(category, message) == [category |-> category, message |-> message, detail |-> ""]
FlashDetail(message, detail) == [category |-> "error", message |-> message, detail |-> detail]
NoStats == [total_visits |-> 0, unique_visitors |-> 0]

NoResp == [kind |-> "none", to |-> "", flash |-> NoFlash, records |-> <<>>,
           page |-> 0, total_pages |-> 0, search |-> <<>>, sort |-> "",
           body |-> <<>>, filename |-> <<>>, set_cookie |-> NoCookie,
           cookie_max_age |-> 0, stats |-> NoStats]

Redirect(view, flash) == [NoResp EXCEPT !.kind = "redirect", !.to = view, !.flash = flash]
\* an exception no handler catches: Flask answers 400 or 500
Unhandled(exc) == [NoResp EXCEPT !.kind = "exception", !.to = exc]
Render(template, flash, records, page, total_pages, search, sort) ==
    [NoResp EXCEPT !.kind = "render", !.to = template, !.flash = flash,
                   !.records = records, !.page = page, !.total_pages = total_pages,
                   !.search = search, !.sort = sort]

\* str(e) of the sqlite3.Error the failing statement raises
DbErrorText == "database is locked"
ConnFailed == Flash("error", "Database connection failed. Check SQLite database path.")

\* the routes whose view opens a connection
StoreRoutes == {"papers", "admin", "add", "update", "update_form", "delete",
                "download", "test_db"}

\* connections opened up to the return: none when admin_required refuses or
\* get_db_connection returns None; otherwise the view's own, one more in
\* init_db (papers, admin) and one more in get_visitor_stats (admin, once
\* its listing queries have run)
HandlesOpened(req, resp) ==
    IF req.op \notin StoreRoutes \/ resp.to = "admin_login" \/ req.db = "noconn"
    THEN 0
    ELSE 1 + (IF req.op \in {"papers", "admin"} THEN 1 ELSE 0)
           + (IF req.op = "admin" /\ resp.flash = NoFlash THEN 1 ELSE 0)

\* close() at the end of the function only: a return inside try skips it
HandlesClosed_FallThroughOnly(n, resp) ==
    IF resp.flash.category = "error" /\ resp.flash.detail = "" THEN 0 ELSE n

\* finally: cursor.close(); conn.close() runs on every way out of the try
HandlesClosed(n, resp) == n

\* no request is between two of its statements
NoRequest == [op |-> "none", page |-> 0, search |-> <<>>, sort |-> "",
              total_records |-> 0, tbl |-> [k \in {} |-> NoForm]]

\* the return of a view; it ends the request in flight when it is that request's
Reply(req, resp) ==
    /\ last' = [req |-> req, resp |-> resp]
    /\ open_handles' = open_handles + HandlesOpened(req, resp)
                          - HandlesClosed(HandlesOpened(req, resp), resp)
    /\ in_flight' = IF in_flight.op = req.op THEN NoRequest ELSE in_flight

\* no 'if not record' test: None is subscripted
NotFound_Raises(view) == Unhandled("TypeError")

\* if not record: flash("Question paper not found.", "error"), redirect
NotFound(view) == Redirect(view, Flash("error", "Question paper not found."))

(* ------------------------------ sessions ------------------------------- *)
ADMIN_EMAIL == "sumanthdaripalli03@gmail.com"
ADMIN_PASSWORD == "sumanth#03"

NoSession == [k \in {} |-> ""]
\* a decorator that lets a session without a role through
IsAdmin_NoRolePasses(sess) == "role" \notin DOMAIN sess \/ sess["role"] = "admin"

\* not ('role' not in session or session['role'] != 'admin')
IsAdmin(sess) == "role" \in DOMAIN sess /\ sess["role"] = "admin"

\* admin_required: the wrapped view is not entered
Refused(req) ==
    /\ Reply(req, Redirect("admin_login", Flash("error", "Admin access required.")))
    /\ UNCHANGED <<question_papers_1, sqlite_sequence, visitor_stats, uuid_count,
                   session, uploaded>>

\* only the email is compared
CredentialsOk_EmailOnly(email, password) == email = ADMIN_EMAIL

\* email == 'sumanthdaripalli03@gmail.com' and password == 'sumanth#03'
CredentialsOk(email, password) == email = ADMIN_EMAIL /\ password = ADMIN_PASSWORD

admin_login_post(email, password) ==
    LET req == [Req("admin_login") EXCEPT !.email = email, !.password = password]
    IN  /\ IF CredentialsOk(email, password)
           THEN /\ session' = [k \in (DOMAIN session) \cup {"role", "username"} |->
                                 IF k = "role" THEN "admin"
                                 ELSE IF k = "username" THEN "Admin" ELSE session[k]]
                /\ Reply(req, Redirect("admin", Flash("success", "Admin logged in successfully!")))
           ELSE /\ session' = session
                /\ Reply(req, Render("ADMIN_LOGIN_TEMPLATE",
                                     Flash("error", "Invalid email or password."),
                                     <<>>, 0, 0, <<>>, ""))
        /\ UNCHANGED <<question_papers_1, sqlite_sequence, visitor_stats, uuid_count, uploaded>>

admin_login_get ==
    /\ Reply(Req("admin_login_form"),
             Render("ADMIN_LOGIN_TEMPLATE", NoFlash, <<>>, 0, 0, <<>>, ""))
    /\ UNCHANGED <<question_papers_1, sqlite_sequence, visitor_stats, uuid_count,
                   session, uploaded>>

\* only the username is popped
admin_logout_KeepsRole ==
    /\ session' = [k \in (DOMAIN session) \ {"username"} |-> session[k]]
    /\ Reply(Req("admin_logout"), Redirect("papers", Flash("success", "Logged out successfully.")))
    /\ UNCHANGED <<question_papers_1, sqlite_sequence, visitor_stats, uuid_count, uploaded>>

admin_logout ==
    /\ session' = [k \in (DOMAIN session) \ {"role", "username"} |-> session[k]]
    /\ Reply(Req("admin_logout"), Redirect("papers", Flash("success", "Logged out successfully.")))
    /\ UNCHANGED <<question_papers_1, sqlite_sequence, visitor_stats, uuid_count, uploaded>>

(* ---------------------------- the store -------------------------------- *)
\* a plain INTEGER PRIMARY KEY: one more than the largest id in the table
NextRowid_NoAutoincrement(seq, tbl) ==
    IF DOMAIN tbl = {} THEN 1
    ELSE 1 + (CHOOSE m \in DOMAIN tbl : \A k \in DOMAIN tbl : k <= m)

\* INTEGER PRIMARY KEY AUTOINCREMENT: one more than the largest id ever used
NextRowid(seq, tbl) == seq + 1

\* the sequence is not kept
RecordSequence_Forgets(seq, id) == 0

\* sqlite_sequence keeps the largest rowid the table has ever held
RecordSequence(seq, id) == IF id > seq THEN id ELSE seq

\* the INSERT is never committed: closing the connection rolls it back
InsertRow_NoCommit(tbl, id, row) == tbl

\* INSERT ... followed by conn.commit()
InsertRow(tbl, id, row) == [k \in (DOMAIN tbl) \cup {id} |-> IF k = id THEN row ELSE tbl[k]]

\* DELETE ... WHERE id<=?
DeleteRow_UpTo(tbl, id) == [k \in {x \in DOMAIN tbl : x > id} |-> tbl[k]]

\* DELETE FROM question_papers_1 WHERE id=?
DeleteRow(tbl, id) == [k \in (DOMAIN tbl) \ {id} |-> tbl[k]]

\* a single UPDATE statement that always sets file_data
UpdatedRow_AlwaysSetsFile(old, f) == RowOf(MetaOf(f), f.file.data)

\* the two UPDATE statements: with a file part file_data is set too
UpdatedRow(old, f) ==
    IF FileTruthy(f.file) THEN RowOf(MetaOf(f), f.file.data)
    ELSE RowOf(MetaOf(f), old.file_data)

\* UPDATE without the WHERE clause
UpdateRow_AllRows(tbl, id, f) == [k \in DOMAIN tbl |-> UpdatedRow(tbl[k], f)]

\* UPDATE ... WHERE id=? touches the row with that id, if there is one
UpdateRow(tbl, id, f) ==
    [k \in DOMAIN tbl |-> IF k = id THEN UpdatedRow(tbl[k], f) ELSE tbl[k]]

Forget(h, id) == [k \in (DOMAIN h) \ {id} |-> h[k]]

(* --------------------------------- add --------------------------------- *)
add(form, db) ==
    LET req == [Req("add") EXCEPT !.form = form, !.db = db]
        verdict == AddVerdict(form)
        row == RowOf(MetaOf(form), form.file.data)
        id == NextRowid(sqlite_sequence, question_papers_1)
        keep == UNCHANGED <<question_papers_1, sqlite_sequence, uploaded>>
    IN  /\ UNCHANGED <<visitor_stats, uuid_count, session>>
        /\ IF ~ IsAdmin(session) THEN Refused(req)
           ELSE IF db = "noconn" THEN Reply(req, Redirect("admin", ConnFailed)) /\ keep
           ELSE IF form.missing # {} THEN Reply(req, Unhandled("BadRequestKeyError")) /\ keep
           ELSE IF verdict = "ValueError" THEN Reply(req, Unhandled("ValueError")) /\ keep
           ELSE IF verdict # "ok"
                THEN Reply(req, Redirect("admin", Flash("error", VerdictMessage(verdict)))) /\ keep
           ELSE IF db = "error" \/ ~ TableCheck(row)
                THEN /\ Reply(req, Redirect("admin",
                                FlashDetail("Error adding question paper: ", DbErrorText)))
                     /\ keep
           ELSE /\ question_papers_1' = InsertRow(question_papers_1, id, row)
                /\ sqlite_sequence' = RecordSequence(sqlite_sequence, id)
                /\ uploaded' = InsertRow(uploaded, id, form.file.data)
                /\ Reply(req, Redirect("admin", Flash("success", "Question paper added successfully!")))

(* -------------------------------- update ------------------------------- *)
update_get(id, db) ==
    LET req == [Req("update_form") EXCEPT !.id = id, !.db = db]
    IN  /\ UNCHANGED <<question_papers_1, sqlite_sequence, visitor_stats, uuid_count,
                       session, uploaded>>
        /\ IF ~ IsAdmin(session) THEN Refused(req)
           ELSE IF db = "noconn" THEN Reply(req, Redirect("admin", ConnFailed))
           ELSE IF db = "error"
                THEN Reply(req, Redirect("admin",
                           FlashDetail("Error updating question paper: ", DbErrorText)))
           ELSE IF id \notin DOMAIN question_papers_1
                THEN Reply(req, NotFound("admin"))
           ELSE Reply(req, Render("UPDATE_TEMPLATE", NoFlash,
                                  <<ListedRow(question_papers_1, id)>>, 0, 0, <<>>, ""))

update_post(id, form, db) ==
    LET req == [Req("update") EXCEPT !.id = id, !.form = form, !.db = db]
        verdict == UpdateVerdict(form)
        newTbl == UpdateRow(question_papers_1, id, form)
        keep == UNCHANGED <<question_papers_1, uploaded>>
    IN  /\ UNCHANGED <<sqlite_sequence, visitor_stats, uuid_count, session>>
        /\ IF ~ IsAdmin(session) THEN Refused(req)
           ELSE IF db = "noconn" THEN Reply(req, Redirect("admin", ConnFailed)) /\ keep
           ELSE IF form.missing # {} THEN Reply(req, Unhandled("BadRequestKeyError")) /\ keep
           ELSE IF verdict = "ValueError" THEN Reply(req, Unhandled("ValueError")) /\ keep
           ELSE IF verdict # "ok"
                THEN Reply(req, Redirect("update", Flash("error", VerdictMessage(verdict)))) /\ keep
           ELSE IF db = "error" \/ \E k \in DOMAIN newTbl : ~ TableCheck(newTbl[k])
                THEN /\ Reply(req, Redirect("admin",
                                FlashDetail("Error updating question paper: ", DbErrorText)))
                     /\ keep
           ELSE /\ question_papers_1' = newTbl
                /\ uploaded' = IF FileTruthy(form.file) THEN Forget(uploaded, id) ELSE uploaded
                /\ Reply(req, Redirect("admin", Flash("success", "Question paper updated successfully!")))

(* -------------------------------- delete ------------------------------- *)
delete(id, db) ==
    LET req == [Req("delete") EXCEPT !.id = id, !.db = db]
        keep == UNCHANGED <<question_papers_1, uploaded>>
    IN  /\ UNCHANGED <<sqlite_sequence, visitor_stats, uuid_count, session>>
        /\ IF ~ IsAdmin(session) THEN Refused(req)
           ELSE IF db = "noconn" THEN Reply(req, Redirect("admin", ConnFailed)) /\ keep
           ELSE IF db = "error"
                THEN /\ Reply(req, Redirect("admin",
                                FlashDetail("Error deleting question paper: ", DbErrorText)))
                     /\ keep
           ELSE /\ question_papers_1' = DeleteRow(question_papers_1, id)
                /\ uploaded' = Forget(uploaded, id)
                /\ Reply(req, Redirect("admin", Flash("success", "Question paper deleted successfully!")))

(* ------------------------------- download ------------------------------ *)
FileResponse(row) ==
    [NoResp EXCEPT !.kind = "file", !.to = "application/pdf", !.body = row.file_data,
                   !.filename = DownloadName(row.subject_name, row.year_name)]

\* the view behind @admin_required
download_Gated(id, db) ==
    LET req == [Req("download") EXCEPT !.id = id, !.db = db]
    IN  /\ UNCHANGED <<question_papers_1, sqlite_sequence, visitor_stats, uuid_count,
                       session, uploaded>>
        /\ IF ~ IsAdmin(session) THEN Refused(req)
           ELSE IF id \notin DOMAIN question_papers_1 THEN Reply(req, NotFound("papers"))
           ELSE Reply(req, FileResponse(question_papers_1[id]))

download(id, db) ==
    LET req == [Req("download") EXCEPT !.id = id, !.db = db]
    IN  /\ UNCHANGED <<question_papers_1, sqlite_sequence, visitor_stats, uuid_count,
                       session, uploaded>>
        /\ IF db = "noconn" THEN Reply(req, Redirect("papers", ConnFailed))
           ELSE IF db = "error"
                THEN Reply(req, Redirect("papers",
                           FlashDetail("Error downloading question paper: ", DbErrorText)))
           ELSE IF id \notin DOMAIN question_papers_1
                THEN Reply(req, NotFound("papers"))
           ELSE Reply(req, FileResponse(question_papers_1[id]))

(* ------------------------------- listings ------------------------------ *)
\* SELECT COUNT(visitor_id) in place of COUNT(DISTINCT visitor_id)
get_visitor_stats_NoDistinct ==
    [total_visits |-> Len(visitor_stats), unique_visitors |-> Len(visitor_stats)]

\* get_visitor_stats (the daily breakdown is not modelled)
get_visitor_stats ==
    [total_visits |-> Len(visitor_stats),
     unique_visitors |-> Cardinality({visitor_stats[i] : i \in 1..Len(visitor_stats)})]

ListingResponse(template, page, search, sort) ==
    Render(template, NoFlash,
           PageRecords(question_papers_1, page, search, sort),
           page, TotalPages(question_papers_1, search), search, sort)

\* a row only for a visitor_id the table does not hold yet
TrackVisitor_OncePerVisitor(stats, visitor_id) ==
    IF \E i \in 1..Len(stats) : stats[i] = visitor_id THEN stats
    ELSE Append(stats, visitor_id)

\* INSERT INTO visitor_stats (timestamp, visitor_id) VALUES (?, ?)
TrackVisitor(stats, visitor_id) == Append(stats, visitor_id)

\* a new identifier for every view, whatever cookie the request carries
CookieAbsent_Always(cookie) == TRUE

\* if not visitor_id / if not request.cookies.get('visitor_id')
CookieAbsent(cookie) == cookie = NoCookie

\* GET /: db is "ok", "noconn", "error" (the visitor INSERT raises) or
\* "error_late" (the visitor row is committed, a listing query raises)
papers(cookie, page, search, sort, db) ==
    LET req == [Req("papers") EXCEPT !.cookie = cookie, !.page = page,
                                     !.search = search, !.sort = sort, !.db = db]
        minted == CookieAbsent(cookie)
        visitor_id == IF minted THEN Uuid(uuid_count + 1) ELSE cookie
        page_resp == ListingResponse("PAPERS_TEMPLATE", page, search, sort)
    IN  /\ UNCHANGED <<question_papers_1, sqlite_sequence, session, uploaded>>
        /\ IF db = "noconn"
           THEN /\ Reply(req, Render("PAPERS_TEMPLATE", ConnFailed, <<>>, 1, 1, <<>>, "id"))
                /\ UNCHANGED <<visitor_stats, uuid_count>>
           ELSE /\ uuid_count' = IF minted THEN uuid_count + 1 ELSE uuid_count
                /\ IF db = "error"
                   THEN \* search and sort are not bound when the last return reads them
                        /\ Reply(req, Unhandled("UnboundLocalError"))
                        /\ UNCHANGED visitor_stats
                   ELSE /\ visitor_stats' = TrackVisitor(visitor_stats, visitor_id)
                        /\ IF db = "error_late"
                           THEN Reply(req, Render("PAPERS_TEMPLATE",
                                        FlashDetail("Error fetching records: ", DbErrorText),
                                        <<>>, 1, 1, search, sort))
                           ELSE Reply(req, [page_resp EXCEPT
                                  !.set_cookie = IF minted THEN visitor_id ELSE NoCookie,
                                  !.cookie_max_age =
                                      IF minted THEN VISITOR_COOKIE_MAX_AGE ELSE 0])

\* GET /admin
admin(page, search, sort, db) ==
    LET req == [Req("admin") EXCEPT !.page = page, !.search = search,
                                    !.sort = sort, !.db = db]
    IN  /\ UNCHANGED <<question_papers_1, sqlite_sequence, visitor_stats, uuid_count,
                       session, uploaded>>
        /\ IF ~ IsAdmin(session) THEN Refused(req)
           ELSE IF db = "noconn"
                THEN Reply(req, Render("ADMIN_TEMPLATE", ConnFailed, <<>>, 1, 1, <<>>, "id"))
           ELSE IF db = "error"
                THEN Reply(req, Render("ADMIN_TEMPLATE",
                             FlashDetail("Error fetching records: ", DbErrorText),
                             <<>>, 1, 1, search, sort))
           ELSE Reply(req, [ListingResponse("ADMIN_TEMPLATE", page, search, sort)
                              EXCEPT !.stats = get_visitor_stats])

(* ----------------- GET /admin, one statement at a time ----------------- *)
\* the view up to cursor.execute(count_query, params): total_records is read
admin_count_query(page, search, sort) ==
    /\ IsAdmin(session)
    /\ in_flight.op = "none"
    /\ in_flight' = [op |-> "admin", page |-> page, search |-> search, sort |-> sort,
                     total_records |-> Cardinality(MatchingIds(question_papers_1, search)),
                     tbl |-> question_papers_1]
    /\ UNCHANGED <<question_papers_1, sqlite_sequence, visitor_stats, uuid_count,
                   session, last, uploaded, open_handles>>

\* the rest of the view: the page query runs in its own read transaction,
\* on the table as it is by then, and the page is rendered
admin_page_query ==
    LET r == in_flight
        req == [Req("admin") EXCEPT !.page = r.page, !.search = r.search, !.sort = r.sort]
    IN  /\ in_flight.op = "admin"
        /\ UNCHANGED <<question_papers_1, sqlite_sequence, visitor_stats, uuid_count,
                       session, uploaded>>
        /\ Reply(req, [Render("ADMIN_TEMPLATE", NoFlash,
                              PageRecords(question_papers_1, r.page, r.search, r.sort),
                              r.page, CeilDiv(r.total_records, per_page),
                              r.search, r.sort)
                         EXCEPT !.stats = get_visitor_stats])

(* ------------------------------- test_db ------------------------------- *)
\* GET /test_db: a JSON status, 500 when the connection or the query fails
test_db(db) ==
    LET req == [Req("test_db") EXCEPT !.db = db]
    IN  /\ UNCHANGED <<question_papers_1, sqlite_sequence, visitor_stats, uuid_count,
                       session, uploaded>>
        /\ Reply(req, [NoResp EXCEPT !.kind = "json",
                                     !.to = IF db = "ok" THEN "success" ELSE "error"])

(* ------------------------------ Init ----------------------------------- *)
EmptyTable == [k \in {} |-> NoForm]

Init ==
    /\ question_papers_1 = EmptyTable
    /\ sqlite_sequence = 0
    /\ visitor_stats = <<>>
    /\ uuid_count = 0
    /\ session = NoSession
    /\ last = [req |-> Req("none"), resp |-> NoResp]
    /\ uploaded = EmptyTable
    /\ open_handles = 0
    /\ in_flight = NoRequest

(* ------------------------------ inputs --------------------------------- *)
PdfFile == [filename |-> <<"a",".","p","d","f">>, data |-> <<37, 80, 68, 70>>]
UpperPdfFile == [filename |-> <<"B",".","P","D","F">>, data |-> <<37, 80>>]
TxtFile == [filename |-> <<"a",".","t","x","t">>, data |-> <<104, 105>>]
NoExtFile == [filename |-> <<"p","d","f">>, data |-> <<37, 80, 68, 70>>]

BaseForm == [year_name |-> <<"2","0","2","4">>, semester_no |-> <<"1">>,
             subject_name |-> <<"D","a","t","a"," ","S","t","r","u","c","t","u","r","e","s">>,
             subject_code |-> <<"C","S","1","0","1">>, paper_type |-> "Regular",
             paper_year |-> <<"2","0","2","4">>, file |-> PdfFile, missing |-> {}]

\* the form UPDATE_TEMPLATE submits: its year input is not named paper_year
TemplateUpdateForm == [BaseForm EXCEPT !.missing = {"paper_year"}, !.file = NoFile]

Logins == {<<ADMIN_EMAIL, ADMIN_PASSWORD>>, <<ADMIN_EMAIL, "guess">>, <<"a@b.c", ADMIN_PASSWORD>>}
DbFailures == {"noconn", "error"}

(* --------------------- the CRUD specification: Spec -------------------- *)
CrudAddForms ==
    {BaseForm, [BaseForm EXCEPT !.file = UpperPdfFile],
     [BaseForm EXCEPT !.semester_no = <<"1","3">>], [BaseForm EXCEPT !.file = NoFile]}
CrudUpdateForms ==
    CrudAddForms \cup {[BaseForm EXCEPT !.paper_type = "Arrear", !.file = NoFile],
                       TemplateUpdateForm}
\* every id handed out so far and one that never was
RequestIds == 1..(MaxId + 1)

\* a request with a working store, or the base request with a failing one
CrudAddInputs == (CrudAddForms \X {"ok"}) \cup ({BaseForm} \X DbFailures)
CrudUpdateInputs == (CrudUpdateForms \X {"ok"}) \cup ({BaseForm} \X DbFailures)

Add == sqlite_sequence < MaxId /\ \E in \in CrudAddInputs : add(in[1], in[2])
UpdateGet == \E id \in RequestIds, db \in {"ok"} \cup DbFailures : update_get(id, db)
UpdatePost == \E id \in RequestIds, in \in CrudUpdateInputs : update_post(id, in[1], in[2])
Delete == \E id \in RequestIds, db \in {"ok"} \cup DbFailures : delete(id, db)
Download == \E id \in RequestIds, db \in {"ok"} \cup DbFailures : download(id, db)
Admin == \E db \in {"ok"} \cup DbFailures : admin(1, <<>>, "id", db)
LoginPost == \E c \in Logins : admin_login_post(c[1], c[2])
LoginGet == admin_login_get
Logout == admin_logout

Next == \/ Add \/ UpdateGet \/ UpdatePost \/ Delete \/ Download
        \/ Admin \/ LoginPost \/ LoginGet \/ Logout

Spec == Init /\ [][Next]_vars

(* ------------- the validation specification: SpecValidate -------------- *)
\* the base form with one field changed at a time
AddForms ==
    {BaseForm}
    \cup {[BaseForm EXCEPT !.year_name = v] : v \in {<<>>, Repeat("y", MaxYearNameLen + 1)}}
    \cup {[BaseForm EXCEPT !.semester_no = v] :
            v \in {<<>>, <<"0">>, <<"1","2">>, <<"1","3">>, <<"1","_","2">>, <<"a","b","c">>}}
    \cup {[BaseForm EXCEPT !.subject_name = v] : v \in {<<>>, Repeat("s", MaxSubjectNameLen + 1)}}
    \cup {[BaseForm EXCEPT !.subject_code = v] : v \in {<<>>, Repeat("c", MaxSubjectCodeLen + 1)}}
    \cup {[BaseForm EXCEPT !.paper_type = v] : v \in {"", "Arrear", "Other"}}
    \cup {[BaseForm EXCEPT !.paper_year = v] : v \in {<<>>, <<"9","9">>}}
    \cup {[BaseForm EXCEPT !.file = v] : v \in {NoFile, UpperPdfFile, TxtFile, NoExtFile}}
    \cup {[BaseForm EXCEPT !.missing = {"paper_year"}]}
UpdateForms == AddForms \cup {[BaseForm EXCEPT !.paper_type = "Arrear", !.file = NoFile]}
ValIds == 1..(MaxValId + 1)

ValAdd == /\ sqlite_sequence < MaxValId
          /\ \E in \in (AddForms \X {"ok"}) \cup ({BaseForm} \X DbFailures) : add(in[1], in[2])
ValUpdate == \E id \in ValIds, in \in (UpdateForms \X {"ok"}) \cup ({BaseForm} \X DbFailures) :
                 update_post(id, in[1], in[2])
ValLogin == admin_login_post(ADMIN_EMAIL, ADMIN_PASSWORD)
ValLogout == admin_logout

NextValidate == ValAdd \/ ValUpdate \/ ValLogin \/ ValLogout

SpecValidate == Init /\ [][NextValidate]_vars

(* ---------------- the listing specification: SpecList ------------------ *)
\* str(n) for 0 <= n < 100
NatStr(n) == IF n < 10 THEN <<DigitChars[n + 1]>>
             ELSE <<DigitChars[(n \div 10) + 1], DigitChars[(n % 10) + 1]>>

SeedYears == <<<<"2","0","2","4">>, <<"2","0","2","3">>, <<"2","0","2","2">>>>
SeedSubjects == <<<<"T","h","e","r","m","o","d","y","n","a","m","i","c","s">>, <<"D","a","t","a"," ","S","t","r","u","c","t","u","r","e","s">>, <<"m","a","t","h","s","_","1">>, <<"M","A","T","H","S"," ","2">>>>
SeedCodes == <<<<>>, <<"C","S","1","0","1">>>>
SeedPaperYears == <<<<>>, <<"2","0","2","0">>, <<"1","9","9","9">>>>

\* the k-th upload of a fixed series: sort keys repeat and are not in id order
SeedForm(k) ==
    [year_name |-> SeedYears[(k % 3) + 1],
     semester_no |-> NatStr(((k * 5) % 12) + 1),
     subject_name |-> SeedSubjects[(k % 4) + 1],
     subject_code |-> SeedCodes[(k % 2) + 1],
     paper_type |-> IF k % 2 = 0 THEN "Regular" ELSE "Arrear",
     paper_year |-> SeedPaperYears[(k % 3) + 1],
     file |-> PdfFile, missing |-> {}]

ListPages == {1, 2, 3}
ListSearches == {<<>>, <<"T","H","E","R","M","O">>, <<"z","z","z">>, <<"_">>}
ListSorts == {"id", "year_name", "semester_no", "paper_year", "nonexistent_field"}
AdminListPages == {1, 2}
AdminListSearches == {<<>>, <<"2","0","2","4">>}
AdminListSorts == {"id", "paper_year", "id DESC"}
ListDeleteIds == {2}
ListCookie == [src |-> "client", n |-> 1]

ListLogin == admin_login_post(ADMIN_EMAIL, ADMIN_PASSWORD)
ListAdd == sqlite_sequence < MaxListId /\ add(SeedForm(sqlite_sequence + 1), "ok")
ListDelete == \E id \in ListDeleteIds : delete(id, "ok")
ListPapers == /\ Len(visitor_stats) < MaxVisits
              /\ \E page \in ListPages, search \in ListSearches, sort \in ListSorts :
                    papers(ListCookie, page, search, sort, "ok")
ListAdmin == \E page \in AdminListPages, search \in AdminListSearches, sort \in AdminListSorts :
                 admin(page, search, sort, "ok")

NextList == ListLogin \/ ListAdd \/ ListDelete \/ ListPapers \/ ListAdmin

SpecList == Init /\ [][NextList]_vars

(* ---------------- the visitor specification: SpecVisit ----------------- *)
\* the add of the end-to-end scenario: the other fields are sent empty
E2EForm == [BaseForm EXCEPT !.semester_no = <<"3">>, !.subject_code = <<>>,
                            !.paper_year = <<>>]
\* a metadata-only update that renames the subject
VisitUpdateForm ==
    [E2EForm EXCEPT !.subject_name = <<"T","h","e","r","m","o">>, !.file = NoFile]

VisitIds == 1..(MaxValId + 1)
VisitPages == {1, 2}
VisitSearches == {<<>>, <<"d","a","t","a">>}
\* a browser without the cookie, or one sending an identifier the table holds
VisitCookies == {NoCookie} \cup {visitor_stats[i] : i \in 1..Len(visitor_stats)}
VisitDb == {"ok", "noconn", "error", "error_late"}

VisitLogin == admin_login_post(ADMIN_EMAIL, ADMIN_PASSWORD)
VisitLogout == admin_logout
VisitAdd == sqlite_sequence < MaxValId /\ add(E2EForm, "ok")
VisitUpdate == \E id \in VisitIds : update_post(id, VisitUpdateForm, "ok")
VisitDelete == \E id \in VisitIds : delete(id, "ok")
VisitDownload == \E id \in VisitIds : download(id, "ok")
VisitPapers ==
    /\ Len(visitor_stats) < MaxViews
    /\ uuid_count < MaxViews
    /\ \/ \E c \in VisitCookies, page \in VisitPages, search \in VisitSearches :
              papers(c, page, search, "id", "ok")
       \/ \E c \in VisitCookies, db \in VisitDb : papers(c, 1, <<>>, "id", db)
VisitAdmin == \E search \in VisitSearches : admin(1, search, "id", "ok")

NextVisit == \/ VisitLogin \/ VisitLogout \/ VisitAdd \/ VisitUpdate \/ VisitDelete
             \/ VisitDownload \/ VisitPapers \/ VisitAdmin

SpecVisit == Init /\ [][NextVisit]_vars

(* --------------- the exit-path specification: SpecExit ----------------- *)
\* an add and an update that fail validation
ExitAddForms == {BaseForm, [BaseForm EXCEPT !.file = TxtFile]}
ExitUpdateForms == {VisitUpdateForm, [BaseForm EXCEPT !.paper_type = "Other"]}
ExitDb == {"ok"} \cup DbFailures

ExitLogin == admin_login_post(ADMIN_EMAIL, ADMIN_PASSWORD)
ExitLogout == admin_logout
ExitAdd == /\ sqlite_sequence < MaxValId
           /\ \E f \in ExitAddForms, db \in ExitDb : add(f, db)
ExitUpdateGet == \E id \in ValIds, db \in ExitDb : update_get(id, db)
ExitUpdatePost == \E id \in ValIds, f \in ExitUpdateForms, db \in ExitDb :
                      update_post(id, f, db)
ExitDelete == \E id \in ValIds, db \in ExitDb : delete(id, db)
ExitDownload == \E id \in ValIds, db \in ExitDb : download(id, db)
ExitPapers == /\ Len(visitor_stats) < MaxVisits
              /\ \E db \in VisitDb : papers(ListCookie, 1, <<>>, "id", db)
ExitAdmin == \E db \in ExitDb : admin(1, <<>>, "id", db)
ExitTestDb == \E db \in ExitDb : test_db(db)

NextExit == \/ ExitLogin \/ ExitLogout \/ ExitAdd \/ ExitUpdateGet \/ ExitUpdatePost
            \/ ExitDelete \/ ExitDownload \/ ExitPapers \/ ExitAdmin \/ ExitTestDb

SpecExit == Init /\ [][NextExit]_vars

(* -------------- the interleaving specification: SpecRace --------------- *)
\* another request's write commits at most once while a listing is in flight
OneCommitInFlight == in_flight.op = "none" \/ in_flight.tbl = question_papers_1
RacePages == {1, 2}

RaceLogin == admin_login_post(ADMIN_EMAIL, ADMIN_PASSWORD)
RaceAdd == /\ sqlite_sequence < MaxListId
           /\ OneCommitInFlight
           /\ add(SeedForm(sqlite_sequence + 1), "ok")
RaceDelete == OneCommitInFlight /\ \E id \in ListDeleteIds : delete(id, "ok")
RaceCount == \E page \in RacePages : admin_count_query(page, <<>>, "id")
RacePage == admin_page_query

NextRace == RaceLogin \/ RaceAdd \/ RaceDelete \/ RaceCount \/ RacePage

SpecRace == Init /\ [][NextRace]_vars

(* ======================================================================= *)
(*                               properties                                *)
(* ======================================================================= *)
HasAdminRole == "role" \in DOMAIN session /\ session["role"] = "admin"
GatedOps == {"add", "update", "update_form", "delete", "admin"}

\* C1: a request to add, update (GET or POST), delete or the admin dashboard
\* made with a session whose role is not 'admin' is answered by a redirect to
\* the admin login view and leaves the question-paper table unchanged.
C1_AdminRoleRequired ==
    [][ (last'.req.op \in GatedOps /\ ~ HasAdminRole)
        => /\ last'.resp.kind = "redirect"
           /\ last'.resp.to = "admin_login"
           /\ question_papers_1' = question_papers_1 ]_vars

\* a delete of a stored record was refused for want of the admin role
C1_Witness ==
    /\ last.req.op = "delete"
    /\ last.resp.to = "admin_login"
    /\ last.req.id \in DOMAIN question_papers_1
    /\ ~ HasAdminRole

Success == last.resp.flash.category = "success"
NotFoundMessage == "Question paper not found."

\* C2: once an add has stored a record with a payload, download of the id
\* given to that record returns exactly that payload, for as long as the
\* record is neither deleted nor updated with a new file (the store
\* answering the download).
C2_RoundTrip ==
    /\ \A id \in DOMAIN uploaded :
          /\ id \in DOMAIN question_papers_1
          /\ question_papers_1[id].file_data = uploaded[id]
    /\ (last.req.op = "download" /\ last.req.db = "ok" /\ last.req.id \in DOMAIN uploaded)
          => (last.resp.kind = "file" /\ last.resp.body = uploaded[last.req.id])

\* a download returned the added payload after a metadata-only update
C2_Witness ==
    /\ last.req.op = "download" /\ last.resp.kind = "file"
    /\ last.req.id \in DOMAIN uploaded
    /\ last.resp.body = PdfFile.data
    /\ question_papers_1[last.req.id].paper_type = "Arrear"

\* C3: every record of the question-paper table has semester_no an integer
\* in 1..12 and paper_type Regular or Arrear, after any sequence of add,
\* update and delete requests.
C3_StoredRanges ==
    \A id \in DOMAIN question_papers_1 :
       /\ question_papers_1[id].semester_no.t = "integer"
       /\ question_papers_1[id].semester_no.i \in 1..12
       /\ question_papers_1[id].paper_type \in {"Regular", "Arrear"}

\* what the claim C4 lists as grounds for rejecting an add
C4_Empty(f) ==
    \/ f.year_name = <<>> \/ f.semester_no = <<>> \/ f.subject_name = <<>>
    \/ f.paper_type = "" \/ f.file.filename = <<>>
C4_TooLong(f) == Len(f.year_name) > 20 \/ Len(f.subject_name) > 100 \/ Len(f.subject_code) > 20
C4_SemesterOutside(f) == ~ (PyIntOk(f.semester_no) /\ PyInt(f.semester_no) \in 1..12)
C4_BadType(f) == f.paper_type \notin {"Regular", "Arrear"}
C4_NotPdf(f) == ~ (HasDot(f.file.filename)
                   /\ LowerStr(RSplitExt(f.file.filename)) = <<"p","d","f">>)
C4_Rejectable(f) ==
    C4_Empty(f) \/ C4_TooLong(f) \/ C4_SemesterOutside(f) \/ C4_BadType(f) \/ C4_NotPdf(f)

\* C4: an add by the admin, carrying every field of the add form and reaching
\* a working store, persists nothing and reports no success when a required
\* field is empty, a text is over its length limit, semester_no is not a
\* number in [1,12], paper_type is not Regular or Arrear or the file
\* extension is not pdf (letter case ignored); otherwise it persists exactly
\* one new row and reports success.
C4_AddValidation ==
    [][ (last'.req.op = "add" /\ HasAdminRole /\ last'.req.db = "ok"
         /\ last'.req.form.missing = {})
        => IF C4_Rejectable(last'.req.form)
           THEN /\ question_papers_1' = question_papers_1
                /\ last'.resp.flash.category # "success"
           ELSE /\ Cardinality(DOMAIN question_papers_1')
                     = Cardinality(DOMAIN question_papers_1) + 1
                /\ \A id \in DOMAIN question_papers_1 :
                      /\ id \in DOMAIN question_papers_1'
                      /\ question_papers_1'[id] = question_papers_1[id]
                /\ last'.resp.flash.category = "success" ]_vars

\* an add with semester_no 12 was accepted and stored
C4_Witness ==
    /\ last.req.op = "add" /\ Success
    /\ last.req.form.semester_no = <<"1","2">>
    /\ sqlite_sequence \in DOMAIN question_papers_1

\* C5: a successful update of an existing record without a file part leaves
\* the record's file_data as it was and sets the metadata columns from the
\* form; with a new .pdf file it sets file_data to the new content.
C5_UpdateFile ==
    [][ (/\ last'.req.op = "update"
         /\ last'.resp.flash.category = "success"
         /\ last'.req.id \in DOMAIN question_papers_1)
        => LET id == last'.req.id
               f == last'.req.form
               new == question_papers_1'[id]
           IN  /\ id \in DOMAIN question_papers_1'
               /\ new.year_name = f.year_name
               /\ new.subject_name = f.subject_name
               /\ new.subject_code = f.subject_code
               /\ new.paper_type = f.paper_type
               /\ IF f.file.filename = <<>>
                  THEN new.file_data = question_papers_1[id].file_data
                  ELSE new.file_data = f.file.data ]_vars

\* a metadata-only update succeeded on a record that keeps its payload
C5_Witness ==
    /\ last.req.op = "update" /\ Success
    /\ last.req.form.file = NoFile
    /\ last.req.id \in DOMAIN question_papers_1
    /\ question_papers_1[last.req.id].paper_type = "Arrear"
    /\ question_papers_1[last.req.id].file_data # <<>>

\* C6: an update request (GET or POST) by the admin for an id that is not in
\* the table, the store working, yields the not-found outcome: never a
\* success report, never an unhandled exception.
C6_UpdateMissingIsNotFound ==
    (/\ last.req.op \in {"update", "update_form"}
     /\ last.resp.to # "admin_login"
     /\ last.req.db = "ok"
     /\ last.req.id \notin DOMAIN question_papers_1)
    => /\ last.resp.kind = "redirect"
       /\ last.resp.flash.message = NotFoundMessage

\* C7 as stated, for the request that follows the delete: once an admin
\* delete of id X has completed, X is not in the table, whatever request
\* comes next.
C7_DeletedStaysDeleted ==
    [][ (last.req.op = "delete" /\ Success)
        => last.req.id \notin DOMAIN question_papers_1' ]_vars

\* C7 amended: an id that has been handed out and is no longer in the table
\* never returns to it; a completed admin delete of X leaves X out of the
\* table at once; a download of an id that is not in the table reports
\* not-found; a listing holds only ids that are in the table.
C7_AssignedIdsStayDeleted ==
    [][ /\ \A x \in 1..sqlite_sequence :
              x \notin DOMAIN question_papers_1 => x \notin DOMAIN question_papers_1'
        /\ (last'.req.op = "delete" /\ last'.resp.flash.category = "success")
              => last'.req.id \notin DOMAIN question_papers_1'
        /\ (last'.req.op = "download" /\ last'.req.db = "ok"
            /\ last'.req.id \notin DOMAIN question_papers_1)
              => (last'.resp.kind = "redirect"
                  /\ last'.resp.flash.message = NotFoundMessage)
        /\ (last'.req.op = "admin" /\ last'.resp.kind = "render")
              => \A i \in 1..Len(last'.resp.records) :
                    last'.resp.records[i].id \in DOMAIN question_papers_1' ]_vars

\* a deleted id was asked for after a later add, and reported not found
C7_Witness ==
    /\ last.req.op = "download"
    /\ last.req.id < sqlite_sequence
    /\ last.req.id \notin DOMAIN question_papers_1
    /\ sqlite_sequence \in DOMAIN question_papers_1
    /\ last.resp.flash.message = NotFoundMessage

\* C8: an admin delete of an id that is not in the table, the store working,
\* raises nothing, gives the very response a delete of an existing id gives,
\* and leaves the table unchanged; deleting twice equals deleting once.
C8_DeleteMissing ==
    [][ (last'.req.op = "delete" /\ HasAdminRole /\ last'.req.db = "ok")
        => /\ last'.resp = Redirect("admin",
                             Flash("success", "Question paper deleted successfully!"))
           /\ last'.req.id \notin DOMAIN question_papers_1
                 => question_papers_1' = question_papers_1
           /\ last'.req.id \notin DOMAIN question_papers_1'
           /\ \A k \in DOMAIN question_papers_1 \ {last'.req.id} :
                 k \in DOMAIN question_papers_1'
                 /\ question_papers_1'[k] = question_papers_1[k] ]_vars

\* a delete of an id never handed out succeeded on a table that holds rows
C8_Witness ==
    /\ last.req.op = "delete" /\ Success
    /\ last.req.id > sqlite_sequence
    /\ question_papers_1 # EmptyTable

(* --------------------------- listing claims ---------------------------- *)
ServedListing ==
    /\ last.req.op \in {"papers", "admin"}
    /\ last.resp.kind = "render"
    /\ last.resp.to \in {"PAPERS_TEMPLATE", "ADMIN_TEMPLATE"}
    /\ last.req.db = "ok"

MatchCount == Cardinality(MatchingIds(question_papers_1, last.req.search))

\* C9: a served listing (public or admin, positive page) reports total_pages
\* equal to the ceiling of (matching records / 10), 0 when nothing matches, and
\* its last page holds (matching mod 10) records, or 10 when that is 0.
C9_TotalPages ==
    ServedListing =>
       LET n == MatchCount
           tp == last.resp.total_pages
       IN  /\ tp >= 0
           /\ tp * 10 >= n
           /\ tp > 0 => (tp - 1) * 10 < n
           /\ (n = 0) => (tp = 0)
           /\ (tp > 0 /\ last.req.page = tp)
                 => Len(last.resp.records) = (IF n % 10 = 0 THEN 10 ELSE n % 10)

\* the public listing served its second and last page
C9_Witness ==
    /\ ServedListing /\ last.req.op = "papers"
    /\ last.resp.total_pages = 2 /\ last.req.page = 2
    /\ Len(last.resp.records) >= 1

\* the value a listed record is ordered by
ListedKey(rec, sort) ==
    CASE sort = "year_name" -> TextVal(rec.year_name)
      [] sort = "semester_no" -> rec.semester_no
      [] sort = "paper_year" -> rec.paper_year
      [] OTHER -> IntVal(rec.id)

StoredKey(id, sort) == ListedKey(ListedRow(question_papers_1, id), sort)

RECURSIVE ConcatPages(_, _, _)
ConcatPages(k, search, sort) ==
    IF k = 0 THEN <<>>
    ELSE ConcatPages(k - 1, search, sort) \o PageIds(question_papers_1, k, search, sort)

\* C10: page k of a served listing holds at most 10 records, in ascending
\* order of the effective sort field, and the record at place i is ranked
\* (k-1)*10+i among the matching records; for the store as it stands, pages
\* 1..total_pages put end to end hold every matching record exactly once.
C10_Pages ==
    ServedListing =>
       LET recs == last.resp.records
           sort == last.req.sort
           search == last.req.search
           ids == MatchingIds(question_papers_1, search)
           all == ConcatPages(TotalPages(question_papers_1, search), search, sort)
           below(r) == Cardinality({x \in ids : SqlLess(StoredKey(x, sort), ListedKey(r, sort))})
           notAbove(r) == Cardinality({x \in ids : ~ SqlLess(ListedKey(r, sort), StoredKey(x, sort))})
       IN  /\ Len(recs) <= 10
           /\ \A i \in 1..Len(recs) :
                 /\ recs[i].id \in ids
                 /\ recs[i] = ListedRow(question_papers_1, recs[i].id)
                 /\ below(recs[i]) <= (last.req.page - 1) * 10 + i - 1
                 /\ (last.req.page - 1) * 10 + i <= notAbove(recs[i])
           /\ \A i, j \in 1..Len(recs) :
                 i < j => ~ SqlLess(ListedKey(recs[j], sort), ListedKey(recs[i], sort))
           /\ Len(all) = Cardinality(ids)
           /\ {all[i] : i \in 1..Len(all)} = ids
           /\ Len(recs) = Cardinality({x \in 1..Cardinality(ids) :
                                         /\ x > (last.req.page - 1) * 10
                                         /\ x <= last.req.page * 10})

\* a second page ordered by a column whose values repeat
C10_Witness ==
    /\ ServedListing
    /\ last.req.page = 2 /\ last.req.sort = "year_name"
    /\ Len(last.resp.records) >= 1

\* text holds needle as a substring, letter case ignored
C11_Contains(text, needle) ==
    \E i \in 0..(Len(text) - Len(needle)) :
       LowerStr(SubSeq(text, i + 1, i + Len(needle))) = LowerStr(needle)

C11_Hit(row, search) ==
    \/ search = <<>>
    \/ C11_Contains(row.year_name, search)
    \/ C11_Contains(row.subject_name, search)
    \/ C11_Contains(row.subject_code, search)

\* C11: for a served listing with a non-empty search text, a record is in
\* the matching set if and only if its year_name, subject_name or
\* subject_code holds the search text as a substring, letter case ignored
\* (so every listed record holds it, and total_pages counts exactly the
\* records that hold it); with an empty search every record matches.
C11_SearchIsSubstring ==
    ServedListing =>
       LET search == last.req.search
           hits == {id \in DOMAIN question_papers_1 :
                      C11_Hit(question_papers_1[id], search)}
       IN  /\ MatchingIds(question_papers_1, search) = hits
           /\ \A i \in 1..Len(last.resp.records) : last.resp.records[i].id \in hits
           /\ last.resp.total_pages * 10 >= Cardinality(hits)
           /\ last.resp.total_pages > 0
                 => (last.resp.total_pages - 1) * 10 < Cardinality(hits)

(* ----------------------- sort fallback and pages ----------------------- *)
SortNames == {"id", "year_name", "semester_no", "paper_year"}

\* a listing request that reached the view with a working store
ListingRequest ==
    /\ last.req.op \in {"papers", "admin"}
    /\ last.req.db = "ok"
    /\ last.resp.to # "admin_login"

\* C12: a listing request whose sort value is none of id, year_name,
\* semester_no, paper_year is served without error and with exactly the
\* records, in the same order, and the total_pages that the same request
\* with sort=id gets: the matching records in ascending id order, the one
\* at place i of page k being the ((k-1)*10+i)-th smallest matching id.
C12_SortFallback ==
    (ListingRequest /\ last.req.sort \notin SortNames) =>
       LET recs == last.resp.records
           ids == MatchingIds(question_papers_1, last.req.search)
           rank(x) == Cardinality({y \in ids : y <= x})
       IN  /\ last.resp.kind = "render"
           /\ last.resp.flash = NoFlash
           /\ recs = PageRecords(question_papers_1, last.req.page, last.req.search, "id")
           /\ last.resp.total_pages = TotalPages(question_papers_1, last.req.search)
           /\ \A i \in 1..Len(recs) :
                 /\ recs[i].id \in ids
                 /\ rank(recs[i].id) = (last.req.page - 1) * 10 + i

\* the dashboard listed several records for sort 'id DESC', smallest id first
C12_Witness ==
    /\ ListingRequest /\ last.req.op = "admin"
    /\ last.req.sort = "id DESC"
    /\ Len(last.resp.records) >= 3
    /\ last.resp.records[1].id < last.resp.records[2].id

\* C13: a listing request with a page number greater than total_pages (the
\* store working) is served without error and with no records at all, and
\* its total_pages is still the ceiling of (matching records / 10).
C13_PageBeyondLast ==
    (ListingRequest /\ last.req.page >= 1
     /\ (last.req.page - 1) * 10 >= MatchCount) =>
       /\ last.resp.kind = "render"
       /\ last.resp.flash = NoFlash
       /\ last.resp.records = <<>>
       /\ last.resp.page = last.req.page
       /\ last.resp.total_pages * 10 >= MatchCount
       /\ last.resp.total_pages * 10 < MatchCount + 10
       /\ last.resp.total_pages < last.req.page

\* page 3 of a public listing that has two pages
C13_Witness ==
    /\ ListingRequest /\ last.req.op = "papers"
    /\ last.req.page = 3
    /\ last.resp.total_pages = 2
    /\ last.resp.records = <<>>

(* ------------------------------ download ------------------------------- *)
\* a download of an id that is in the table, answered by a working store
DownloadServed ==
    /\ last.req.op = "download" /\ last.req.db = "ok"
    /\ last.req.id \in DOMAIN question_papers_1

PdfSuffix == <<".","p","d","f">>
DataStructures == <<"D","a","t","a"," ","S","t","r","u","c","t","u","r","e","s">>

\* the table holds one record, the one the end-to-end add created
C14_E2EStored(id) ==
    /\ DOMAIN question_papers_1 = {id}
    /\ id \in DOMAIN uploaded /\ uploaded[id] = PdfFile.data
    /\ question_papers_1[id].year_name = <<"2","0","2","4">>
    /\ question_papers_1[id].semester_no = IntVal(3)
    /\ question_papers_1[id].subject_name = DataStructures
    /\ question_papers_1[id].paper_type = "Regular"

\* page 1 of the unfiltered listing shows that one record with its fields
C14_E2EListed ==
    (ServedListing /\ last.req.page = 1 /\ last.req.search = <<>>) =>
       \A id \in DOMAIN question_papers_1 :
          C14_E2EStored(id) =>
             /\ Len(last.resp.records) = 1
             /\ last.resp.records[1].id = id
             /\ last.resp.records[1].year_name = <<"2","0","2","4">>
             /\ last.resp.records[1].semester_no = IntVal(3)
             /\ last.resp.records[1].subject_name = DataStructures
             /\ last.resp.records[1].paper_type = "Regular"

\* C14 as stated: a download of a stored record returns its payload as
\* application/pdf under the filename <subject_name>_<year_name>.pdf, and in
\* the end-to-end scenario the listing shows the added row and the download
\* returns the added content under the filename 'Data Structures_2024.pdf'.
C14_DownloadNamedAsStored ==
    /\ C14_E2EListed
    /\ DownloadServed =>
          LET row == question_papers_1[last.req.id]
          IN  /\ last.resp.kind = "file"
              /\ last.resp.to = "application/pdf"
              /\ last.resp.body = row.file_data
              /\ last.resp.filename = row.subject_name \o <<"_">> \o row.year_name \o PdfSuffix
              /\ C14_E2EStored(last.req.id) =>
                    /\ last.resp.body = PdfFile.data
                    /\ last.resp.filename = DataStructures \o <<"_","2","0","2","4">> \o PdfSuffix

\* C14 amended: the filename is secure_filename of
\* <subject_name>_<year_name>.pdf, so it holds only letters, digits, '_', '.'
\* and '-', and in the end-to-end scenario it is 'Data_Structures_2024.pdf';
\* the payload, the content type and the listed row are as stated.
C14_DownloadNamedSafely ==
    /\ C14_E2EListed
    /\ DownloadServed =>
          LET row == question_papers_1[last.req.id]
          IN  /\ last.resp.kind = "file"
              /\ last.resp.to = "application/pdf"
              /\ last.resp.body = row.file_data
              /\ last.resp.filename =
                    secure_filename(row.subject_name \o <<"_">> \o row.year_name \o PdfSuffix)
              /\ \A i \in 1..Len(last.resp.filename) :
                    last.resp.filename[i] \in FilenameChars
              /\ C14_E2EStored(last.req.id) =>
                    /\ last.resp.body = PdfFile.data
                    /\ last.resp.filename =
                          <<"D","a","t","a","_","S","t","r","u","c","t","u","r","e","s">>
                          \o <<"_","2","0","2","4">> \o PdfSuffix

\* the record of the end-to-end add was downloaded
C14_Witness ==
    /\ DownloadServed /\ last.resp.kind = "file"
    /\ C14_E2EStored(last.req.id)
    /\ last.resp.body = PdfFile.data
    /\ Len(last.resp.filename) = Len(DataStructures) + 9

\* C15: a download of an id that is not in the question-paper table, the
\* store answering, is answered by a redirect to the public listing carrying
\* the flashed message 'Question paper not found.', which is neither the
\* message of a failed statement nor that of a failed connection; nothing is
\* raised, and the stored records (and the visitor rows) stay as they were.
C15_DownloadMissing ==
    [][ (/\ last'.req.op = "download" /\ last'.req.db = "ok"
         /\ last'.req.id \notin DOMAIN question_papers_1)
        => /\ last'.resp.kind = "redirect"
           /\ last'.resp.to = "papers"
           /\ last'.resp.flash.category = "error"
           /\ last'.resp.flash.message = "Question paper not found."
           /\ last'.resp.flash.detail = ""
           /\ last'.resp.flash.message # "Error downloading question paper: "
           /\ last'.resp.flash.message # ConnFailed.message
           /\ last'.resp.body = <<>>
           /\ question_papers_1' = question_papers_1
           /\ visitor_stats' = visitor_stats ]_vars

\* an id never handed out was asked for while the table held a record
C15_Witness ==
    /\ last.req.op = "download" /\ last.req.db = "ok"
    /\ last.req.id > sqlite_sequence
    /\ question_papers_1 # EmptyTable
    /\ last.resp.kind = "redirect" /\ last.resp.to = "papers"
    /\ last.resp.flash.message = NotFoundMessage

(* -------------------------------- login -------------------------------- *)
FixedPair(req) ==
    req.email = "sumanthdaripalli03@gmail.com" /\ req.password = "sumanth#03"

\* C16: the session comes to hold the admin role only in a step that is a
\* login POST whose email and password both equal the fixed pair; a login
\* POST with any other pair leaves the session as it was and is answered by
\* the login view with the message 'Invalid email or password.'.
C16_AdminRoleOnlyByLogin ==
    [][ /\ (~ HasAdminRole /\ HasAdminRole')
              => (last'.req.op = "admin_login" /\ FixedPair(last'.req))
        /\ (last'.req.op = "admin_login" /\ ~ FixedPair(last'.req))
              => /\ session' = session
                 /\ last'.resp.kind = "render"
                 /\ last'.resp.to = "ADMIN_LOGIN_TEMPLATE"
                 /\ last'.resp.flash.category = "error"
                 /\ last'.resp.flash.message = "Invalid email or password." ]_vars

\* the right email with a wrong password was turned away
C16_Witness ==
    /\ last.req.op = "admin_login"
    /\ last.req.email = "sumanthdaripalli03@gmail.com"
    /\ last.req.password # "sumanth#03"
    /\ last.resp.to = "ADMIN_LOGIN_TEMPLATE"
    /\ ~ HasAdminRole

(* ---------------------------- public views ----------------------------- *)
\* C17: GET / and GET /download/<id> never send a request to the admin
\* login and never insert, change or delete a row of question_papers_1; made
\* with an empty session and a working store, GET / is answered by the
\* listing page and a download of a stored id by the file.
C17_PublicReadOnly ==
    [][ (last'.req.op \in {"papers", "download"})
        => /\ question_papers_1' = question_papers_1
           /\ sqlite_sequence' = sqlite_sequence
           /\ session' = session
           /\ last'.resp.to # "admin_login"
           /\ (session = NoSession /\ last'.req.db = "ok")
                 => /\ last'.req.op = "papers"
                       => /\ last'.resp.kind = "render"
                          /\ last'.resp.to = "PAPERS_TEMPLATE"
                          /\ last'.resp.flash = NoFlash
                    /\ (last'.req.op = "download"
                        /\ last'.req.id \in DOMAIN question_papers_1)
                       => /\ last'.resp.kind = "file"
                          /\ last'.resp.body = question_papers_1[last'.req.id].file_data
        ]_vars

\* a browser with an empty session was shown a stored record on GET /
C17_Witness ==
    /\ session = NoSession
    /\ last.req.op = "papers" /\ last.resp.kind = "render"
    /\ Len(last.resp.records) >= 1
    /\ question_papers_1 # EmptyTable

(* --------------------------- visitor counter --------------------------- *)
\* C18: in every step the visitor_stats table keeps the rows it had, in
\* place and unchanged, and gains at most one; it gains exactly one in every
\* GET / that is answered by the listing page without an error message, and
\* none in any request other than GET / (dashboard, login, logout, add,
\* update, delete, download); hence the number of rows never decreases.
C18_VisitsAppendOnly ==
    [][ /\ Len(visitor_stats') >= Len(visitor_stats)
        /\ Len(visitor_stats') <= Len(visitor_stats) + 1
        /\ \A i \in 1..Len(visitor_stats) : visitor_stats'[i] = visitor_stats[i]
        /\ (/\ last'.req.op = "papers"
            /\ last'.resp.kind = "render"
            /\ last'.resp.flash = NoFlash)
              => Len(visitor_stats') = Len(visitor_stats) + 1
        /\ last'.req.op # "papers" => visitor_stats' = visitor_stats ]_vars

\* a browser that sent its identifier again was counted again
C18_Witness ==
    /\ last.req.op = "papers" /\ last.resp.kind = "render"
    /\ last.resp.flash = NoFlash
    /\ last.req.cookie # NoCookie
    /\ Len(visitor_stats) >= 2
    /\ visitor_stats[Len(visitor_stats)] = last.req.cookie
    /\ \E i \in 1..(Len(visitor_stats) - 1) : visitor_stats[i] = last.req.cookie

VisitorIds == {visitor_stats[i] : i \in 1..Len(visitor_stats)}

\* C19: the table starts empty; a served GET / from a browser without the
\* visitor cookie raises both the number of rows and the number of distinct
\* identifiers by one and hands the browser the identifier it recorded; a
\* served GET / from a browser sending an identifier handed out before
\* raises the number of rows by one and leaves the number of distinct
\* identifiers as it was; the dashboard reports these two numbers as
\* total_visits and unique_visitors.  (So N views without a cookie give
\* N and N, and each repeat view adds one visit and no visitor.)
C19_VisitorCounts ==
    [][ /\ (/\ last'.req.op = "papers" /\ last'.resp.kind = "render"
            /\ last'.resp.flash = NoFlash /\ last'.req.cookie = NoCookie)
              => /\ Len(visitor_stats') = Len(visitor_stats) + 1
                 /\ Cardinality(VisitorIds') = Cardinality(VisitorIds) + 1
                 /\ last'.resp.set_cookie = visitor_stats'[Len(visitor_stats')]
                 /\ last'.resp.set_cookie # NoCookie
        /\ (/\ last'.req.op = "papers" /\ last'.resp.kind = "render"
            /\ last'.resp.flash = NoFlash /\ last'.req.cookie \in VisitorIds)
              => /\ Len(visitor_stats') = Len(visitor_stats) + 1
                 /\ Cardinality(VisitorIds') = Cardinality(VisitorIds)
                 /\ last'.resp.set_cookie = NoCookie
        /\ (/\ last'.req.op = "admin" /\ last'.resp.kind = "render"
            /\ last'.resp.to = "ADMIN_TEMPLATE" /\ last'.req.db = "ok")
              => /\ last'.resp.stats.total_visits = Len(visitor_stats')
                 /\ last'.resp.stats.unique_visitors = Cardinality(VisitorIds') ]_vars

\* the dashboard after two first views and one repeat view
C19_Witness ==
    /\ last.req.op = "admin" /\ last.resp.kind = "render"
    /\ last.resp.stats.total_visits = 3
    /\ last.resp.stats.unique_visitors = 2
    /\ visitor_stats = <<Uuid(1), Uuid(2), Uuid(1)>>

(* ------------------------- writes then listing ------------------------- *)
\* the request just answered committed a write of the given kind
Committed(op) == last.req.op = op /\ last.resp.flash.category = "success"

\* the listed record carries the metadata the form sent, as the columns hold it
ShowsForm(rec, f) ==
    /\ rec.year_name = f.year_name
    /\ rec.subject_name = f.subject_name
    /\ rec.subject_code = f.subject_code
    /\ rec.paper_type = f.paper_type
    /\ rec.semester_no = IntegerAffinityStr(f.semester_no)
    /\ rec.paper_year = IntegerAffinity(OrNone(f.paper_year))

\* C20: when the request that follows a committed add, update or delete is a
\* served listing (public or admin), then: after an add, the new record is
\* stored with the form's metadata and, if the filter matches it, is listed
\* exactly on the page its rank among the matching records puts it on; after
\* an update of a stored record, the record is listed under the same
\* condition and wherever it is listed it shows the form's metadata; after a
\* delete, no listed record has the deleted id.
C20_WriteThenList ==
    [][ (/\ last'.req.op \in {"papers", "admin"}
         /\ last'.resp.kind = "render"
         /\ last'.resp.to \in {"PAPERS_TEMPLATE", "ADMIN_TEMPLATE"}
         /\ last'.req.db = "ok")
        => LET recs == last'.resp.records
               search == last'.req.search
               page == last'.req.page
               tbl == question_papers_1
               listed(id) == \E i \in 1..Len(recs) : recs[i].id = id
               rank(id) == 1 + Cardinality({x \in MatchingIds(tbl, search) \ {id} :
                                              Precedes(tbl, x, id, last'.req.sort)})
               onItsPage(id) ==
                  listed(id) <=> (/\ Matches(tbl[id], search)
                                  /\ (page - 1) * 10 < rank(id)
                                  /\ rank(id) <= page * 10)
               showsForm(id) ==
                  \A i \in 1..Len(recs) :
                     recs[i].id = id => ShowsForm(recs[i], last.req.form)
           IN  /\ Committed("add")
                     => /\ sqlite_sequence \in DOMAIN tbl
                        /\ ShowsForm(ListedRow(tbl, sqlite_sequence), last.req.form)
                        /\ onItsPage(sqlite_sequence)
                        /\ showsForm(sqlite_sequence)
               /\ (Committed("update") /\ last.req.id \in DOMAIN tbl)
                     => /\ onItsPage(last.req.id)
                        /\ showsForm(last.req.id)
               /\ Committed("delete") => ~ listed(last.req.id) ]_vars

\* the public listing shows the subject an update has just renamed
C20_Witness ==
    /\ ServedListing /\ last.req.op = "papers"
    /\ last.req.page = 1 /\ last.req.search = <<>>
    /\ Len(last.resp.records) >= 1
    /\ last.resp.records[1].subject_name = VisitUpdateForm.subject_name
    /\ last.resp.records[1].semester_no = IntVal(3)

(* -------------------------- persistence errors ------------------------- *)
StoreOps == {"papers", "admin", "add", "update", "update_form", "delete", "download"}

\* C21: when the connection or a statement fails in a listing, add, update,
\* delete or download request, the message shown to the user is a generic
\* failure message: it carries nothing of the text of the error raised.
C21_NoErrorDetailShown ==
    (/\ last.req.op \in StoreOps
     /\ last.req.db # "ok"
     /\ last.resp.to # "admin_login")
    => /\ last.resp.kind # "exception"
       /\ last.resp.flash.category = "error"
       /\ last.resp.flash.detail = ""

\* C22: after any sequence of add and update requests, the paper_year of
\* every stored record is either absent (NULL) or an integer in 1900..9999.
C22_PaperYearRange ==
    \A id \in DOMAIN question_papers_1 :
       \/ question_papers_1[id].paper_year = Null
       \/ /\ question_papers_1[id].paper_year.t = "integer"
          /\ question_papers_1[id].paper_year.i \in 1900..9999

(* -------------------------- update validation -------------------------- *)
\* what the claim C23 lists as grounds for rejecting an update
C23_Empty(f) ==
    \/ f.year_name = <<>> \/ f.semester_no = <<>> \/ f.subject_name = <<>>
    \/ f.paper_type = ""
C23_Rejectable(f) ==
    \/ C23_Empty(f) \/ C4_TooLong(f) \/ C4_SemesterOutside(f) \/ C4_BadType(f)
    \/ (f.file.filename # <<>> /\ C4_NotPdf(f))

\* C23: an update POST with an empty required field (the file may be
\* absent), a year_name, subject_name or subject_code over its length limit,
\* a semester_no that is not a number in [1,12], a paper_type other than
\* Regular or Arrear, or a supplied file whose extension is not pdf, writes
\* nothing: every record, the target with its metadata and file_data
\* included, stays as it was, and no success is reported.
C23_UpdateValidation ==
    [][ (last'.req.op = "update" /\ C23_Rejectable(last'.req.form))
        => /\ question_papers_1' = question_papers_1
           /\ last'.resp.flash.category # "success" ]_vars

\* an update of a stored record that supplied a .txt file was turned away
C23_Witness ==
    /\ last.req.op = "update" /\ HasAdminRole
    /\ last.req.id \in DOMAIN question_papers_1
    /\ last.req.form.file = TxtFile
    /\ last.resp.flash.message = "Only PDF files are allowed."
    /\ question_papers_1[last.req.id].file_data = PdfFile.data

(* ---------------------------- visitor cookie --------------------------- *)
ThirtyDays == 30 * 24 * 60 * 60

\* C24: a GET / answered by the listing page, when the request carried no
\* visitor cookie, mints an identifier no row held before, tags the appended
\* row with it and sets it as the visitor cookie with a 30-day expiry; when
\* the request carried a cookie, nothing is minted, the appended row is
\* tagged with exactly the cookie's value and no cookie is set.
C24_CookieMinting ==
    [][ (/\ last'.req.op = "papers" /\ last'.resp.kind = "render"
         /\ last'.resp.flash = NoFlash)
        => /\ Len(visitor_stats') = Len(visitor_stats) + 1
           /\ LET row == visitor_stats'[Len(visitor_stats')]
              IN  IF last'.req.cookie = NoCookie
                  THEN /\ uuid_count' = uuid_count + 1
                       /\ row \notin VisitorIds
                       /\ row # NoCookie
                       /\ last'.resp.set_cookie = row
                       /\ last'.resp.cookie_max_age = ThirtyDays
                  ELSE /\ uuid_count' = uuid_count
                       /\ row = last'.req.cookie
                       /\ last'.resp.set_cookie = NoCookie
                       /\ last'.resp.cookie_max_age = 0 ]_vars

\* a second browser without the cookie was handed the second identifier
C24_Witness ==
    /\ last.req.op = "papers" /\ last.resp.kind = "render"
    /\ last.req.cookie = NoCookie
    /\ last.resp.set_cookie = Uuid(2)
    /\ last.resp.cookie_max_age = ThirtyDays
    /\ Len(visitor_stats) >= 2
    /\ visitor_stats[Len(visitor_stats)] = Uuid(2)

C26_IdsNeverReused ==
    [][ /\ sqlite_sequence' >= sqlite_sequence
        /\ \A x \in DOMAIN question_papers_1' : x <= sqlite_sequence'
        /\ (last'.req.op = "add" /\ last'.resp.flash.category = "success")
              => LET new == (DOMAIN question_papers_1') \ (DOMAIN question_papers_1)
                 IN  /\ Cardinality(new) = 1
                     /\ DOMAIN question_papers_1 \subseteq DOMAIN question_papers_1'
                     /\ \A id \in new :
                           /\ id > sqlite_sequence
                           /\ \A x \in DOMAIN question_papers_1 : id > x
                           /\ id = sqlite_sequence' ]_vars

\* an add after the only record was deleted got the next id, not the freed one
C26_Witness ==
    /\ last.req.op = "add" /\ Success
    /\ DOMAIN question_papers_1 = {2}
    /\ sqlite_sequence = 2

(* ------------------------- listing under errors ------------------------ *)
\* C27: when a statement of a GET / fails, the visitor-row insert included,
\* the handler answers with the empty listing page (no records, page 1,
\* total_pages 1) and an error message; it raises no unhandled exception.
C27_ListingErrorHandled ==
    (last.req.op = "papers" /\ last.req.db \in {"error", "error_late"})
    => /\ last.resp.kind = "render"
       /\ last.resp.to = "PAPERS_TEMPLATE"
       /\ last.resp.records = <<>>
       /\ last.resp.page = 1
       /\ last.resp.total_pages = 1
       /\ last.resp.flash.category = "error"

(* --------------------------- listing snapshot -------------------------- *)
\* C28: the total_pages and the records of one dashboard response are those
\* of one state of the question-paper table (the state the count query read
\* or the state the page query read), also when an add or delete of another
\* request commits in between.
C28_OneSnapshot ==
    [][ (in_flight.op = "admin" /\ last'.req.op = "admin" /\ in_flight'.op = "none")
        => \E tbl \in {in_flight.tbl, question_papers_1} :
              /\ last'.resp.total_pages = TotalPages(tbl, in_flight.search)
              /\ last'.resp.records =
                    PageRecords(tbl, in_flight.page, in_flight.search, in_flight.sort)
        ]_vars

(* -------------------------------- logout ------------------------------- *)
\* C29: a logout leaves the session without the admin role; a session
\* without the role stays without it through every request other than a
\* login POST with the fixed pair, and every add, update, delete and
\* dashboard request it makes meanwhile is sent to the login view and changes
\* no record; a login POST with another pair leaves the session, with or
\* without the role, exactly as it was.
C29_LogoutRevokes ==
    [][ /\ last'.req.op = "admin_logout" => ~ HasAdminRole'
        /\ (~ HasAdminRole /\ ~ (last'.req.op = "admin_login" /\ FixedPair(last'.req)))
              => /\ ~ HasAdminRole'
                 /\ last'.req.op \in GatedOps
                       => /\ last'.resp.kind = "redirect"
                          /\ last'.resp.to = "admin_login"
                          /\ question_papers_1' = question_papers_1
        /\ (last'.req.op = "admin_login" /\ ~ FixedPair(last'.req))
              => session' = session ]_vars

\* after a logout the dashboard was refused although records are stored
C29_Witness ==
    /\ last.req.op = "admin" /\ last.resp.to = "admin_login"
    /\ session = NoSession
    /\ question_papers_1 # EmptyTable

(* ------------------------- frame of the writes ------------------------- *)
\* C30: a successful add keeps every record that was stored, under its id
\* and unchanged; a successful update of id X keeps the set of ids (X stays
\* X) and changes no record other than X; a successful delete of id X
\* removes no id other than X and changes no record that stays.
C30_OnlyTheTarget ==
    [][ LET old == question_papers_1
            new == question_papers_1'
            ok(op) == last'.req.op = op /\ last'.resp.flash.category = "success"
            kept(ids) == \A k \in ids : k \in DOMAIN new /\ new[k] = old[k]
        IN  /\ ok("add") => kept(DOMAIN old)
            /\ ok("update") => /\ DOMAIN new = DOMAIN old
                               /\ kept(DOMAIN old \ {last'.req.id})
            /\ ok("delete") => /\ DOMAIN new = DOMAIN old \ {last'.req.id}
                               /\ kept(DOMAIN old \ {last'.req.id}) ]_vars

\* the first of two records was updated and the second is as it was added
C30_Witness ==
    /\ last.req.op = "update" /\ Success /\ last.req.id = 1
    /\ DOMAIN question_papers_1 = {1, 2}
    /\ question_papers_1[1].paper_type = "Arrear"
    /\ question_papers_1[2].paper_type = "Regular"
    /\ 2 \in DOMAIN uploaded

====
